---- MODULE Spec2Model ----
(***************************************************************************)
(* Model of lru_cache_to_file (src/lru_cache.py): a decorator that         *)
(* memoizes a function's results as pickle files in one directory and      *)
(* trims the directory to max_size files, least recently accessed first.   *)
(*                                                                         *)
(* The directory is shared state; every caller (thread or process) runs    *)
(* the wrapper as a sequence of steps, one per system call that reads or   *)
(* changes the directory, so that the steps of different callers           *)
(* interleave the way the code, which takes no lock, allows.               *)
(*                                                                         *)
(* A cache file is a sequence of chunks: pickle.dump of a result writes    *)
(* EncLen chunks through its own file offset after open(.., "wb") has      *)
(* truncated the file.  Access times come from a clock that may stay       *)
(* equal between two operations (timestamp granularity).                   *)
(*                                                                         *)
(* Environment assumptions: listing the directory, utime, and remove of an *)
(* existing file succeed; a file operation on a name that is gone raises   *)
(* FileNotFoundError (an OSError); opening or writing the cache file for   *)
(* the store may fail with OSError.  The read of a cache file and the      *)
(* getatime scan of min() are each one step.                               *)
(*                                                                         *)
(* The full system (Spec) is every caller running any call.  The          *)
(* properties are checked on parts of it: one caller (SpecSeq), callers    *)
(* that share one key (SpecSameKey), one caller of several functions that  *)
(* share the directory (SpecShared), one caller that passes keyword        *)
(* arguments (SpecKw), and concurrent callers of one deterministic         *)
(* function (SpecRace, and SpecRaceFair under fair scheduling).            *)
(***************************************************************************)
EXTENDS Integers, Sequences, FiniteSets

\* ---------------------------------------------------------------- bounds
max_size == 2          \* capacity given to the decorator
NumCallers == 2        \* concurrent callers of the wrapper
NumValues == 2         \* distinct results the wrapped function can return
EncLen == 2            \* write() calls one pickle.dump takes
MaxTime == 3           \* last clock value
NumFuncs == 2          \* functions decorated with the same cache_dir
NumNames == 2          \* keyword names a call may pass
MaxEvicted == 2        \* removals of one trim loop that are counted

Procs == 1..NumCallers
Keys == 1..(max_size + 1)     \* arg_hash values (one cache file each)
Values == 1..NumValues
Funcs == 1..NumFuncs
Names == 1..NumNames          \* keyword names, in their sort order
ArgValues == {0, 1}           \* values passed as arguments

VARIABLES
    dir,      \* cache_dir: key -> [exists, content, atime]
    now,      \* the clock the filesystem stamps access times with
    recent,   \* history: the existing files, least recently used first
    scen,     \* history: how far the calls so far spell miss(1), miss(2),
              \* hit(1), miss(3) from an empty directory
    prev,     \* history: the call that returned last, if it passed keywords
    frame     \* caller -> the locals of its running wrapper call

vars == <<dir, now, recent, scen, prev, frame>>
history == <<recent, scen, prev>>

\* ------------------------------------------------------- pickle encoding
\* pickle.dump(result, f): chunk i of the pickle of v is <<v, i>>.
Chunk(v, i) == <<v, i>>
Hole == <<0, 0>>     \* bytes of a gap left by a write past the end of file
Encode(v) == [i \in 1..EncLen |-> Chunk(v, i)]

\* The content is the whole pickle of some value.
IsComplete(content) == \E v \in Values : content = Encode(v)

\* The content is a pickle cut short (the empty file included).
IsTruncated(content) ==
    /\ Len(content) < EncLen
    /\ \E v \in Values : content = SubSeq(Encode(v), 1, Len(content))

\* pickle.load(f) of a complete pickle.
Decode(content) == CHOOSE v \in Values : content = Encode(v)

\* Exceptions pickle.load can raise on bytes that are no pickle: a pickle
\* cut short raises EOFError or UnpicklingError, a leading gap is an invalid
\* load key (UnpicklingError), and parts of different pickles raise whatever
\* the bytes they happen to spell raise: UnpicklingError, or a ValueError
\* such as UnicodeDecodeError.
LoadErrors(content) ==
    IF IsTruncated(content) THEN {"EOFError", "UnpicklingError"}
    ELSE IF content[1] = Hole THEN {"UnpicklingError"}
    ELSE {"UnpicklingError", "ValueError"}

\* Parts of different pickles may also spell a pickle: of a value that is
\* neither of the results stored.
Garbled == NumValues + 1
MayGarble(content) ==
    /\ Len(content) = EncLen
    /\ ~IsComplete(content)
    /\ \A i \in 1..EncLen : content[i] # Hole

\* except (pickle.UnpicklingError, EOFError, OSError) around the load
CaughtOnLoad == {"UnpicklingError", "EOFError", "OSError"}

\* Exceptions pickle.dumps raises for arguments that cannot be pickled: a
\* lambda (PicklingError), a lock or a generator (TypeError), a function or
\* an instance of a class defined inside a function (AttributeError).
ArgErrors == {"PicklingError", "TypeError", "AttributeError"}

\* except (pickle.PicklingError, TypeError) around the hashing
CaughtOnHash == {"PicklingError", "TypeError"}

\* Exceptions pickle.dump raises for a result that cannot be pickled.
DumpErrors == {"PicklingError", "TypeError"}

\* except (OSError, pickle.PicklingError) around the store
CaughtOnStore == {"OSError", "PicklingError"}

\* ---------------------------------------------------------- key derivation
\* kwargs as a call supplies them: (name, value) items in the order given,
\* no name twice.
Range(seq) == {seq[i] : i \in 1..Len(seq)}
Kwargs ==
    UNION {{kw \in [1..n -> Names \X ArgValues] :
                \A i, j \in 1..n : i # j => kw[i][1] # kw[j][1]} : n \in 0..NumNames}

\* Mutant: the items are pickled in the order the call gave them.
UnsortedItems(kw) == kw

\* sorted(kwargs.items()): the same items by ascending name.
SortedItems(kw) ==
    CHOOSE s \in [1..Len(kw) -> Range(kw)] :
        /\ Range(s) = Range(kw)
        /\ \A i, j \in 1..Len(s) : i < j => s[i][1] < s[j][1]

\* pickle.dumps(arg_tuple): the positional argument, then each item's name
\* and value, in the order of the list.
Pickled(a, items) ==
    <<a>> \o [i \in 1..(2 * Len(items)) |-> items[(i + 1) \div 2][2 - (i % 2)]]

\* hashlib.sha256(arg_pickle): a polynomial hash of the bytes, of HashMod
\* values; it depends on every byte and on their order.
HashMod == 7
HashBase == 5
RECURSIVE sha256(_)
sha256(bytes) ==
    IF bytes = <<>> THEN 1
    ELSE (HashBase * sha256(SubSeq(bytes, 1, Len(bytes) - 1))
            + bytes[Len(bytes)]) % HashMod

\* arg_hash, as the name of one of the files the directory has room for.
arg_hash(a, kw) ==
    (sha256(Pickled(a, SortedItems(kw))) % (max_size + 1)) + 1

\* The calls that pass the same keywords with the same values as kw.
Reordered(kw) == {s \in Kwargs : Range(s) = Range(kw)}

\* ------------------------------------------------------------ the directory
NoFile == [exists |-> FALSE, content |-> <<>>, atime |-> 0]

Entries == {k \in Keys : dir[k].exists}

\* A new file: empty, stamped with the current time.
NewFile == [exists |-> TRUE, content |-> <<>>, atime |-> now]

\* open(cache_file, "wb") on an existing file: truncated, atime kept.
Truncated(file) == [file EXCEPT !.content = <<>>]

\* Mutant: a hit leaves the access time as it was.
TouchedStale(file) == file

\* os.utime(cache_file, None): the access time becomes the current time.
Touched(file) == [file EXCEPT !.atime = now]

\* write() of one chunk at offset off (0-based) through a file descriptor.
WriteAt(content, off, chunk) ==
    [i \in 1..(IF off + 1 > Len(content) THEN off + 1 ELSE Len(content)) |->
        IF i = off + 1 THEN chunk
        ELSE IF i <= Len(content) THEN content[i]
        ELSE Hole]

\* history: k has just been used (stored or read), or is gone.
Forgotten(seq, k) == SelectSeq(seq, LAMBDA x : x # k)
Accessed(seq, k) == Forgotten(seq, k) \o <<k>>

\* ---------------------------------------------------------------- frames
\* history: the calls returned so far are the first `step` calls of
\* miss(1), miss(2), hit(1), miss(3) made one after the other on an empty
\* directory; apart: the hit of 1 left it a later access time than 2's.
NoScenario == [step |-> 0, apart |-> FALSE]

\* history: no call that passed keywords has just returned.
NoCall == [args |-> 0, kwargs |-> <<>>, cache_file |-> 0, stored |-> FALSE]

\* The call of frame f was a miss on k that stored its result and returned.
IsMiss(f, k) ==
    /\ f.cache_file = k
    /\ ~f.found
    /\ f.calls = 1
    /\ f.stored
    /\ f.exc = "none"

\* The call of frame f was served from the file of k.
IsHit(f, k) ==
    /\ f.cache_file = k
    /\ f.found
    /\ f.calls = 0
    /\ f.exc = "none"
    /\ f.ret # 0

IdleFrame ==
    [pc |-> "idle", func |-> 0, args |-> 0, kwargs |-> <<>>, cache_file |-> 0, found |-> FALSE, result |-> 0,
     pos |-> 0, attached |-> FALSE, files |-> {}, lru_file |-> 0,
     ret |-> 0, exc |-> "none", calls |-> 0, stored |-> FALSE, evicted |-> 0]

\* The call ends: return value v, or exception e reaches the caller.
Returned(f, v) == [f EXCEPT !.pc = "done", !.ret = v]
Raised(f, e) == [f EXCEPT !.pc = "done", !.exc = e]

\* Removing a file detaches the descriptors other callers hold on it: their
\* later writes go to the unlinked file and never show in the directory.
Detach(fr, k) ==
    [q \in Procs |->
        IF fr[q].pc = "dump" /\ fr[q].cache_file = k
        THEN [fr[q] EXCEPT !.attached = FALSE]
        ELSE fr[q]]

Init ==
    /\ dir = [k \in Keys |-> NoFile]
    /\ now = 1
    /\ recent = <<>>
    /\ scen = NoScenario
    /\ prev = NoCall
    /\ frame = [p \in Procs |-> IdleFrame]


\* ------------------------------------------------------------- the wrapper
SetFrame(p, f) == frame' = [frame EXCEPT ![p] = f]

\* Mutant: the trim loop tolerates one file too many.
OverCapacityLax(files_cnt) == files_cnt > max_size + 1

\* if files_cnt > max_size
OverCapacity(files_cnt) == files_cnt > max_size

\* Mutant: the first file listed, whatever its access time.
AnyCandidates(files) == files

\* Mutant: max() for min(): the most recently accessed files.
MruCandidates(files) ==
    {k \in files : \A j \in files : dir[k].atime >= dir[j].atime}

\* min(files, key=os.path.getatime): the listed files with the least access
\* time; min returns the first of them in the order os.listdir gave, which
\* is arbitrary.
LruCandidates(files) ==
    {k \in files : \A j \in files : dir[k].atime <= dir[j].atime}

\* Mutant: a hit goes on to the trim loop before it returns.
LoadOkThenTrim(f, v) == [f EXCEPT !.pc = "list", !.result = v]

\* Mutant: a hit falls through to the call of the wrapped function.
LoadOkRecompute(f, v) == [f EXCEPT !.pc = "func"]

\* return pickle.load(f)
LoadOk(f, v) == Returned(f, v)

\* cache_file is named after the hash k of the arguments alone;
\* os.path.exists(cache_file) decides between the hit and the miss path.
Lookup(f, k) ==
    [f EXCEPT
        !.cache_file = k,
        !.found = dir[k].exists,
        !.pc = IF dir[k].exists THEN "utime" ELSE "func"]

\* Steps 1-4 up to os.path.exists: the arguments pickle, their hash names
\* the cache file k, and the wrapper looks whether the file exists.
Call(p, k) ==
    /\ frame[p].pc = "idle"
    /\ SetFrame(p, Lookup(frame[p], k))
    /\ UNCHANGED <<dir, now, history>>

\* The same steps of a call through g, one of the functions decorated with
\* this cache_dir, each a deterministic function of its arguments.
CallVia(p, g, k) ==
    /\ frame[p].pc = "idle"
    /\ SetFrame(p, [Lookup(frame[p], k) EXCEPT !.func = g])
    /\ UNCHANGED <<dir, now, history>>

\* The arguments do not pickle: pickle.dumps(arg_tuple) raises.  Under the
\* exceptions the handler names the function is called directly and its
\* result, or its exception, is the call's; any other exception leaves the
\* wrapper before the function is called.
CallUnpicklable(p) ==
    /\ frame[p].pc = "idle"
    /\ \E e \in ArgErrors :
         IF e \in CaughtOnHash
         THEN \/ \E v \in Values :
                   SetFrame(p, Returned([frame[p] EXCEPT !.calls = 1, !.result = v], v))
              \/ SetFrame(p, Raised([frame[p] EXCEPT !.calls = 1], "OperationError"))
         ELSE SetFrame(p, Raised(frame[p], e))
    /\ UNCHANGED <<dir, now, history>>

\* os.utime(cache_file, None)
Touch(p) ==
    LET k == frame[p].cache_file IN
    /\ frame[p].pc = "utime"
    /\ IF dir[k].exists
       THEN /\ dir' = [dir EXCEPT ![k] = Touched(dir[k])]
            /\ SetFrame(p, [frame[p] EXCEPT !.pc = "load"])
       ELSE /\ UNCHANGED dir
            /\ SetFrame(p, [frame[p] EXCEPT !.pc = "purge", !.exc = "OSError"])
    /\ UNCHANGED <<now, history>>

\* with open(cache_file, "rb") as f: return pickle.load(f)
Load(p) ==
    LET k == frame[p].cache_file IN
    /\ frame[p].pc = "load"
    /\ IF ~dir[k].exists
       THEN /\ SetFrame(p, [frame[p] EXCEPT !.pc = "purge", !.exc = "OSError"])
            /\ UNCHANGED recent
       ELSE IF IsComplete(dir[k].content)
       THEN /\ SetFrame(p, LoadOk(frame[p], Decode(dir[k].content)))
            /\ recent' = Accessed(recent, k)
       ELSE /\ \/ \E e \in LoadErrors(dir[k].content) :
                    IF e \in CaughtOnLoad
                    THEN SetFrame(p, [frame[p] EXCEPT !.pc = "purge", !.exc = e])
                    ELSE SetFrame(p, Raised(frame[p], e))
               \/ /\ MayGarble(dir[k].content)
                  /\ SetFrame(p, LoadOk(frame[p], Garbled))
            /\ UNCHANGED recent
    /\ UNCHANGED <<dir, now, scen, prev>>

\* The handler of a failed load: os.remove(cache_file), its OSError ignored;
\* the call goes on as a miss.
Purge(p) ==
    LET k == frame[p].cache_file IN
    /\ frame[p].pc = "purge"
    /\ dir' = [dir EXCEPT ![k] = NoFile]
    /\ recent' = Forgotten(recent, k)
    /\ frame' = [Detach(frame, k) EXCEPT
            ![p] = [frame[p] EXCEPT !.pc = "func", !.exc = "none"]]
    /\ UNCHANGED <<now, scen, prev>>

\* Steps 1-4 of a call f(a, **kw), up to os.path.exists.
CallKw(p, a, kw) ==
    /\ frame[p].pc = "idle"
    /\ SetFrame(p, [Lookup(frame[p], arg_hash(a, kw)) EXCEPT
            !.func = 1, !.args = a, !.kwargs = kw])
    /\ UNCHANGED <<dir, now, history>>

\* result = func(*args, **kwargs) returns one of the values vs.
FuncYields(p, vs) ==
    /\ frame[p].pc = "func"
    /\ \E v \in vs :
         SetFrame(p, [frame[p] EXCEPT !.pc = "open", !.result = v, !.calls = @ + 1])
    /\ UNCHANGED <<dir, now, history>>

\* The wrapped function may return anything (it reads a clock, a network).
FuncReturns(p) == FuncYields(p, Values)

\* The value the deterministic function g returns for the arguments with
\* hash k, called directly: different functions give different values.
Direct(g, k) == ((g + k) % NumValues) + 1

\* The wrapped function of the call is deterministic.
FuncReturnsDirect(p) ==
    /\ frame[p].func \in Funcs
    /\ FuncYields(p, {Direct(frame[p].func, frame[p].cache_file)})

\* Mutant: the failure of the wrapped function leaves a cache file behind.
FuncRaisesCached(p) ==
    /\ frame[p].pc = "func"
    /\ frame[p].cache_file # 0
    /\ dir' = [dir EXCEPT ![frame[p].cache_file] = NewFile]
    /\ recent' = Accessed(recent, frame[p].cache_file)
    /\ SetFrame(p, Raised([frame[p] EXCEPT !.calls = @ + 1], "OperationError"))
    /\ UNCHANGED <<now, scen, prev>>

\* result = func(*args, **kwargs) raises: the exception leaves the wrapper.
FuncRaises(p) ==
    /\ frame[p].pc = "func"
    /\ SetFrame(p, Raised([frame[p] EXCEPT !.calls = @ + 1], "OperationError"))
    /\ UNCHANGED <<dir, now, history>>

\* open(cache_file, "wb"): creates the file or truncates it.
OpenWrite(p) ==
    LET k == frame[p].cache_file IN
    /\ frame[p].pc = "open"
    /\ dir' = [dir EXCEPT ![k] = IF dir[k].exists THEN Truncated(dir[k]) ELSE NewFile]
    /\ recent' = Accessed(recent, k)
    /\ SetFrame(p, [frame[p] EXCEPT !.pc = "dump", !.pos = 0, !.attached = TRUE])
    /\ UNCHANGED <<now, scen, prev>>

\* open(cache_file, "wb") raises OSError: logged, the call goes on.
OpenFails(p) ==
    /\ frame[p].pc = "open"
    /\ SetFrame(p, [frame[p] EXCEPT !.pc = "list"])
    /\ UNCHANGED <<dir, now, history>>

\* pickle.dump(result, f) raises because the result does not pickle, before
\* anything is written; the file stays as open() left it.
DumpRaises(p) ==
    /\ frame[p].pc = "dump"
    /\ frame[p].pos = 0
    /\ \E e \in DumpErrors :
         IF e \in CaughtOnStore
         THEN SetFrame(p, [frame[p] EXCEPT !.pc = "list", !.attached = FALSE])
         ELSE SetFrame(p, Raised([frame[p] EXCEPT !.attached = FALSE], e))
    /\ UNCHANGED <<dir, now, history>>

\* One write() of pickle.dump; after the last one the file is closed.
WriteChunk(p) ==
    LET k == frame[p].cache_file
        off == frame[p].pos
        last == off + 1 = EncLen
    IN
    /\ frame[p].pc = "dump"
    /\ off < EncLen
    /\ dir' = IF frame[p].attached
              THEN [dir EXCEPT ![k].content =
                        WriteAt(@, off, Chunk(frame[p].result, off + 1))]
              ELSE dir
    /\ SetFrame(p, [frame[p] EXCEPT
            !.pos = IF last THEN 0 ELSE off + 1,
            !.attached = IF last THEN FALSE ELSE @,
            !.stored = last,
            !.pc = IF last THEN "list" ELSE "dump"])
    /\ UNCHANGED <<now, history>>

\* A write() raises OSError part-way: logged, the file stays as it is.
WriteFails(p) ==
    /\ frame[p].pc = "dump"
    /\ SetFrame(p, [frame[p] EXCEPT !.pc = "list", !.pos = 0, !.attached = FALSE])
    /\ UNCHANGED <<dir, now, history>>

\* Mutant: an if for the while: the call removes at most one file.
ListDirOnce(p) ==
    /\ frame[p].pc = "list"
    /\ IF OverCapacity(Cardinality(Entries)) /\ frame[p].evicted = 0
       THEN SetFrame(p, [frame[p] EXCEPT !.pc = "select", !.files = Entries])
       ELSE SetFrame(p, Returned(frame[p], frame[p].result))
    /\ UNCHANGED <<dir, now, history>>

\* One turn of the trim loop up to its test: list the directory; over
\* capacity goes on to pick a file, otherwise the loop ends and the wrapper
\* returns result.
ListDir(p) ==
    /\ frame[p].pc = "list"
    /\ IF OverCapacity(Cardinality(Entries))
       THEN SetFrame(p, [frame[p] EXCEPT !.pc = "select", !.files = Entries])
       ELSE SetFrame(p, Returned(frame[p], frame[p].result))
    /\ UNCHANGED <<dir, now, history>>

\* lru_file = min(files, key=os.path.getatime); getatime of a listed file
\* that is gone raises FileNotFoundError, which leaves the wrapper.
SelectLru(p) ==
    /\ frame[p].pc = "select"
    /\ IF frame[p].files \subseteq Entries
       THEN \E k \in LruCandidates(frame[p].files) :
              SetFrame(p, [frame[p] EXCEPT !.pc = "evict", !.lru_file = k, !.files = {}])
       ELSE SetFrame(p, Raised([frame[p] EXCEPT !.files = {}], "FileNotFoundError"))
    /\ UNCHANGED <<dir, now, history>>

\* os.remove(lru_file); a file that is gone raises FileNotFoundError, which
\* leaves the wrapper.
Evict(p) ==
    LET k == frame[p].lru_file IN
    /\ frame[p].pc = "evict"
    /\ IF dir[k].exists
       THEN /\ dir' = [dir EXCEPT ![k] = NoFile]
            /\ recent' = Forgotten(recent, k)
            /\ frame' = [Detach(frame, k) EXCEPT
                    ![p] = [frame[p] EXCEPT
                              !.pc = "list",
                              !.evicted = IF @ < MaxEvicted THEN @ + 1 ELSE @]]
       ELSE /\ SetFrame(p, Raised(frame[p], "FileNotFoundError"))
            /\ UNCHANGED <<dir, recent>>
    /\ UNCHANGED <<now, scen, prev>>

\* history: the scenario after the call of frame f has returned.
ScenarioAfter(f) ==
    IF IsMiss(f, 1) /\ Entries = {1}
        THEN [step |-> 1, apart |-> FALSE]
    ELSE IF scen.step = 1 /\ IsMiss(f, 2) /\ Entries = {1, 2}
        THEN [step |-> 2, apart |-> FALSE]
    ELSE IF scen.step = 2 /\ IsHit(f, 1) /\ Entries = {1, 2}
        THEN [step |-> 3, apart |-> dir[1].atime > dir[2].atime]
    ELSE IF scen.step = 3 /\ IsMiss(f, 3)
        THEN [step |-> 4, apart |-> scen.apart]
    ELSE NoScenario

\* The caller has its answer; its next call starts afresh.
Return(p) ==
    /\ frame[p].pc = "done"
    /\ SetFrame(p, IdleFrame)
    /\ scen' = ScenarioAfter(frame[p])
    /\ prev' = IF frame[p].kwargs = <<>>
                THEN NoCall
                ELSE [args |-> frame[p].args, kwargs |-> frame[p].kwargs,
                      cache_file |-> frame[p].cache_file,
                      stored |-> frame[p].stored /\ frame[p].exc = "none"]
    /\ UNCHANGED <<dir, now, recent>>

\* The clock advances.
Tick ==
    /\ now < MaxTime
    /\ now' = now + 1
    /\ UNCHANGED <<dir, history, frame>>

\* The steps of a call under way, but for the call of the wrapped function
\* and the removals of the trim loop.
BodyStep(p) ==
    \/ Touch(p)
    \/ Load(p)
    \/ Purge(p)
    \/ FuncRaises(p)
    \/ OpenWrite(p)
    \/ OpenFails(p)
    \/ DumpRaises(p)
    \/ WriteChunk(p)
    \/ WriteFails(p)
    \/ ListDir(p)
    \/ Return(p)

\* The steps of the wrapper that never remove a file to make room.
CallStep(p, keys) ==
    \/ \E k \in keys : Call(p, k)
    \/ CallUnpicklable(p)
    \/ FuncReturns(p)
    \/ BodyStep(p)

\* The removal of the trim loop.
TrimStep(p) == SelectLru(p) \/ Evict(p)

\* Any number of callers, any arguments, interleaved.
Next == Tick \/ \E p \in Procs : CallStep(p, Keys) \/ TrimStep(p)
Spec == Init /\ [][Next]_vars

\* A single caller: one call after the other.
NextSeq == Tick \/ CallStep(1, Keys) \/ TrimStep(1)
SpecSeq == Init /\ [][NextSeq]_vars

\* Concurrent callers that all pass the same arguments: every call is about
\* the one cache file K, so the directory never exceeds max_size and the
\* trim loop never removes.
K == 1
NextSameKey == Tick \/ \E p \in Procs : CallStep(p, {K})
SpecSameKey == Init /\ [][NextSameKey]_vars

\* A single caller and several deterministic functions decorated with the
\* same cache_dir: one call after the other, through any of them.
NextShared ==
    \/ \E g \in Funcs, k \in Keys : CallVia(1, g, k)
    \/ FuncReturnsDirect(1)
    \/ BodyStep(1)
    \/ TrimStep(1)
SpecShared == Init /\ [][NextShared]_vars

\* A single caller that passes its arguments by keyword, in any order; no
\* operation on the directory fails.
NextKw ==
    \/ \E a \in ArgValues, kw \in Kwargs : CallKw(1, a, kw)
    \/ Touch(1)
    \/ Load(1)
    \/ FuncReturnsDirect(1)
    \/ OpenWrite(1)
    \/ WriteChunk(1)
    \/ ListDir(1)
    \/ TrimStep(1)
    \/ Return(1)
SpecKw == Init /\ [][NextKw]_vars

\* Concurrent callers of one deterministic function, any arguments; no
\* operation on the directory fails but on a file another caller removed.
RaceStep(p) ==
    \/ \E k \in Keys : CallVia(p, 1, k)
    \/ Touch(p)
    \/ Load(p)
    \/ Purge(p)
    \/ FuncReturnsDirect(p)
    \/ OpenWrite(p)
    \/ WriteChunk(p)
    \/ ListDir(p)
    \/ TrimStep(p)
    \/ Return(p)
NextRace == \E p \in Procs : RaceStep(p)
SpecRace == Init /\ [][NextRace]_vars

\* The same callers under fair scheduling: a call under way is not left
\* waiting for ever (the wrapped function returns, every system call
\* returns); nobody has to start a new call.
Running(p) ==
    \/ Touch(p)
    \/ Load(p)
    \/ Purge(p)
    \/ FuncReturnsDirect(p)
    \/ OpenWrite(p)
    \/ WriteChunk(p)
    \/ ListDir(p)
    \/ TrimStep(p)
SpecRaceFair == SpecRace /\ \A p \in Procs : WF_vars(Running(p))


\* ------------------------------------------------------------------ claims
\* Caller p takes a step of its wrapper call.
Moves(p) == frame'[p] # frame[p]

\* The step is p's read of its cache file.
LoadStep(p) == frame[p].pc = "load" /\ Moves(p)

\* The step is p's os.remove of the file it picked in the trim loop.
EvictStep(p) == frame[p].pc = "evict" /\ frame'[p].pc = "list"

\* p's call is over and was a miss-path call that returned its result.
MissReturned(p) ==
    /\ frame[p].pc = "done"
    /\ frame[p].cache_file # 0
    /\ frame[p].calls = 1
    /\ frame[p].exc = "none"

DistinctAtimes(S) == \A i, j \in S : i # j => dir[i].atime # dir[j].atime
Oldest(S) == CHOOSE k \in S : \A j \in S : dir[k].atime <= dir[j].atime

\* C1: a call whose read of the cache file finds a complete pickle returns
\* the value that pickle decodes to, raises nothing, and has not called the
\* wrapped function.
C1_HitReturnsStored ==
    [][\A p \in Procs :
        LET file == dir[frame[p].cache_file] IN
        (LoadStep(p) /\ file.exists /\ IsComplete(file.content)) =>
            /\ frame'[p].pc = "done"
            /\ frame'[p].exc = "none"
            /\ frame'[p].ret = Decode(file.content)
            /\ frame'[p].calls = 0]_vars

\* C1 witness: a call served from the file is over.
C1_Witness ==
    \E p \in Procs :
        /\ frame[p].pc = "done"
        /\ frame[p].found
        /\ frame[p].calls = 0
        /\ frame[p].exc = "none"
        /\ dir[frame[p].cache_file].exists
        /\ frame[p].ret = Decode(dir[frame[p].cache_file].content)

C3_EvictsOldest ==
    [][\A p \in Procs :
        /\ (EvictStep(p) /\ Cardinality(Entries) = max_size + 1
                /\ DistinctAtimes(Entries)) =>
              /\ Entries' = Entries \ {Oldest(Entries)}
              /\ \A k \in Entries' : dir'[k] = dir[k]
        /\ (frame[p].pc = "list" /\ Moves(p) /\ Cardinality(Entries) <= max_size) =>
              /\ frame'[p].pc = "done"
              /\ dir' = dir]_vars

\* C3 witness: the trim loop of a call has removed exactly one file, and
\* max_size files with distinct access times remain.
C3_Witness ==
    \E p \in Procs :
        /\ MissReturned(p)
        /\ frame[p].evicted = 1
        /\ frame[p].lru_file \notin Entries
        /\ Cardinality(Entries) = max_size
        /\ DistinctAtimes(Entries)

\* The calls so far were miss(1), miss(2), hit(1), miss(3) on an empty
\* directory of capacity 2, and the last of them has just returned.
ScenarioDone ==
    /\ max_size = 2
    /\ scen.step = 4
    /\ \A p \in Procs : frame[p].pc = "idle"

Writing(q, k) ==
    frame[q].pc = "dump" /\ frame[q].cache_file = k /\ frame[q].attached

\* p's call is past its store, which wrote the whole pickle of its result.
HasStored(p) == frame[p].pc \in {"list", "select", "evict", "done"} /\ frame[p].stored

\* C5: a caller that reads the cache file of K while another caller has it
\* open for writing reads a whole pickle (or finds no file), never a part of
\* one.
C5_ReaderSeesWholeEntry ==
    [][\A p \in Procs :
        LET k == frame[p].cache_file IN
        (LoadStep(p) /\ dir[k].exists /\ \E q \in Procs \ {p} : Writing(q, k)) =>
            IsComplete(dir[k].content)]_vars

\* C6: when two callers have both stored their results under the same key,
\* the file (if it is still there) is the whole pickle of one of the two
\* results.
C6_ConcurrentStoresLeaveWholeEntry ==
    \A p, q \in Procs :
        LET k == frame[p].cache_file IN
        (p # q /\ HasStored(p) /\ HasStored(q) /\ frame[q].cache_file = k
              /\ dir[k].exists) =>
            dir[k].content \in {Encode(frame[p].result), Encode(frame[q].result)}

\* C7: a file that holds a whole pickle and that no caller has open for
\* writing keeps its content in every step, except a removal of the trim
\* loop and a later store's open(.., "wb") of that file.
C7_CompletedEntryStays ==
    [][\A k \in Keys :
        (dir[k].exists /\ IsComplete(dir[k].content)
              /\ \A q \in Procs : ~Writing(q, k)) =>
            \/ dir'[k].exists /\ dir'[k].content = dir[k].content
            \/ \E p \in Procs : EvictStep(p) /\ frame[p].lru_file = k
            \/ \E p \in Procs : /\ frame[p].pc = "open"
                                /\ frame'[p].pc = "dump"
                                /\ frame[p].cache_file = k]_vars

\* C8: a call that finds no file for its key and whose wrapped function
\* raises ends with that exception, without a return value, and neither of
\* its two steps (the look-up and the call of the function) changes the
\* directory; its trim loop does not run.
C8_FailedMissLeavesStore ==
    [][\A p \in Procs :
        /\ (frame[p].pc = "idle" /\ frame'[p].pc = "func") => dir' = dir
        /\ (frame[p].pc = "func" /\ ~frame[p].found /\ Moves(p)
                /\ frame'[p].result = 0) =>
              /\ dir' = dir
              /\ frame'[p].pc = "done"
              /\ frame'[p].exc = "OperationError"
              /\ frame'[p].ret = 0
              /\ frame'[p].evicted = 0]_vars

\* C8 witness: such a call is over, with files in the directory.
C8_Witness ==
    \E p \in Procs :
        /\ frame[p].pc = "done"
        /\ frame[p].cache_file # 0
        /\ ~frame[p].found
        /\ frame[p].exc = "OperationError"
        /\ Entries # {}
        /\ frame[p].cache_file \notin Entries

\* C9: a call whose wrapped function returned a result ends by returning
\* that result to the caller.
C9_ResultReturnedDespiteStoreFailure ==
    \A p \in Procs :
        (frame[p].pc = "done" /\ frame[p].result # 0) =>
            frame[p].exc = "none" /\ frame[p].ret = frame[p].result

\* C10: a call whose read of its cache file finds bytes that do not decode
\* goes on as a miss (to the removal of the file and the call of the wrapped
\* function); no exception of the load ends the call.
C10_CorruptEntryIsMiss ==
    [][\A p \in Procs :
        LET file == dir[frame[p].cache_file] IN
        (LoadStep(p) /\ file.exists /\ ~IsComplete(file.content)
              /\ frame'[p].ret = 0) =>
            frame'[p].pc = "purge" /\ frame'[p].exc \in CaughtOnLoad]_vars

\* p's call is over and never got a cache file name: its arguments did not
\* pickle.
Bypassed(p) == frame[p].pc = "done" /\ frame[p].cache_file = 0

\* C11: a call whose arguments cannot be pickled calls the wrapped function
\* exactly once and ends with its result or with its exception; the call
\* changes nothing in the directory and runs no trim loop.
C11_UnencodableArgsBypass ==
    /\ [](\A p \in Procs : Bypassed(p) =>
            /\ frame[p].calls = 1
            /\ \/ frame[p].exc = "none" /\ frame[p].ret = frame[p].result
                           /\ frame[p].result \in Values
               \/ frame[p].exc = "OperationError" /\ frame[p].ret = 0
            /\ frame[p].evicted = 0)
    /\ [][\A p \in Procs :
            (frame[p].pc = "idle" /\ frame'[p].pc = "done") => dir' = dir]_vars

\* C12: a call through the deterministic function g that returns a value
\* returns the value g gives for its arguments when called directly.
C12_SameAsUncached ==
    \A p \in Procs :
        (frame[p].pc = "done" /\ frame[p].func \in Funcs /\ frame[p].exc = "none") =>
            frame[p].ret = Direct(frame[p].func, frame[p].cache_file)

\* C13: calls that pass the same positional argument and the same keywords
\* with the same values, in whatever order, are given the same cache file;
\* so a call finds a file exactly if the call with its keywords in any other
\* order would, and it finds the file the call before it stored under the
\* same keywords in another order, if that file is still there.
C13_KeywordOrderSameKey ==
    [][\A p \in Procs :
        (frame[p].pc = "idle" /\ frame'[p].pc # "idle") =>
            /\ \A s \in Reordered(frame'[p].kwargs) :
                  /\ frame'[p].cache_file = arg_hash(frame'[p].args, s)
                  /\ frame'[p].found = dir[arg_hash(frame'[p].args, s)].exists
            /\ (/\ prev.stored
                /\ prev.args = frame'[p].args
                /\ prev.kwargs \in Reordered(frame'[p].kwargs)
                /\ dir[prev.cache_file].exists) =>
                  /\ frame'[p].found
                  /\ frame'[p].cache_file = prev.cache_file]_vars

\* C13 witness: a call was served from the file that the call before it
\* stored when given the same keywords in another order.
C13_Witness ==
    \E p \in Procs :
        /\ frame[p].pc = "done"
        /\ frame[p].found
        /\ frame[p].calls = 0
        /\ frame[p].exc = "none"
        /\ prev.stored
        /\ prev.args = frame[p].args
        /\ prev.kwargs \in Reordered(frame[p].kwargs)
        /\ prev.kwargs # frame[p].kwargs
        /\ prev.cache_file = frame[p].cache_file
        /\ dir[frame[p].cache_file].exists
        /\ frame[p].ret = Decode(dir[frame[p].cache_file].content)

\* The step is a step of p's trim loop past the listing: the choice of the
\* file to remove, or its removal.
PassStep(p) == frame[p].pc \in {"select", "evict"} /\ Moves(p)

\* C14: when the file a trim loop picked is gone by the time the loop gets
\* to it (another caller's loop removed it after the listing), the loop goes
\* on to its next turn and no exception reaches the caller; the call that
\* ran the loop returns the result of the wrapped function.
C14_FailedRemovalDoesNotAbort ==
    /\ [][\A p \in Procs :
            (PassStep(p) /\ (\/ ~(frame[p].files \subseteq Entries)
                             \/ frame[p].pc = "evict" /\ ~dir[frame[p].lru_file].exists)) =>
                /\ frame'[p].exc = "none"
                /\ frame'[p].pc \in {"list", "evict"}]_vars
    /\ [](\A p \in Procs :
            (frame[p].pc = "done" /\ frame[p].stored) =>
                frame[p].exc = "none" /\ frame[p].ret = frame[p].result)

StoreFails(p) ==
    /\ frame[p].pc \in {"open", "dump"}
    /\ Moves(p)
    /\ frame'[p].pc # "dump"
    /\ ~frame'[p].stored

\* C16: a store that fails leaves the directory as it was before the store
\* began.  With a single caller there is no file for the key when a store
\* begins (the call found none, or removed the one it could not load), so
\* after the failure there is no file for the key, and the other files are
\* the ones there were.
C16_FailedWriteLeavesPriorState ==
    [][\A p \in Procs :
        LET k == frame[p].cache_file IN
        StoreFails(p) =>
            /\ ~dir'[k].exists
            /\ \A j \in Keys \ {k} : dir'[j] = dir[j]]_vars

\* C17: a call served from its cache file changes nothing in the directory
\* but the access time of that file: os.utime leaves every other file, and
\* this file's content, as they are; the load changes nothing, returns what
\* the content decodes to (so the same for the same content), and ends the
\* call there, with no listing and no removal.
C17_HitChangesOnlyAccessTime ==
    [][\A p \in Procs :
        LET k == frame[p].cache_file IN
        /\ (frame[p].pc = "utime" /\ Moves(p) /\ dir[k].exists) =>
              /\ dir' = [dir EXCEPT ![k].atime = now]
              /\ frame'[p].pc = "load"
        /\ (LoadStep(p) /\ dir[k].exists /\ IsComplete(dir[k].content)) =>
              /\ dir' = dir
              /\ frame'[p] = [frame[p] EXCEPT !.pc = "done",
                                              !.ret = Decode(dir[k].content)]
              /\ frame'[p].files = {}
              /\ frame'[p].evicted = 0
              /\ frame'[p].calls = 0]_vars

\* C17 witness: a call was served from its file in a full directory, its
\* access time moved to a later time than the other file's; nothing was
\* removed and the function was not called.
C17_Witness ==
    \E p \in Procs :
        LET k == frame[p].cache_file IN
        /\ frame[p].pc = "done"
        /\ IsHit(frame[p], k)
        /\ frame[p].evicted = 0
        /\ Cardinality(Entries) = max_size
        /\ dir[k].exists
        /\ dir[k].atime = now
        /\ \A j \in Entries \ {k} : dir[j].atime < now /\ IsComplete(dir[j].content)
        /\ frame[p].ret = Decode(dir[k].content)

\* The files of S with the least access time, and the lowest key of a set.
OldestOf(S) == {k \in S : \A j \in S : dir[k].atime <= dir[j].atime}
LowestKey(S) == CHOOSE k \in S : \A j \in S : k <= j

C19_EveryCallTerminates ==
    /\ \A p \in Procs : (frame[p].pc # "idle") ~> (frame[p].pc = "done")
    /\ [](\A p \in Procs :
            /\ frame[p].calls <= 1
            /\ frame[p].pc = "done" =>
                  \/ frame[p].exc = "none" /\ frame[p].ret # 0
                  \/ frame[p].exc = "OperationError")

\* C20: with a single caller (and max_size at least 1), a miss-path call
\* that stored its result and returns has left the file it wrote in the
\* directory: its own trim loop never removes it, whatever the access
\* times.
C20_JustWrittenEntrySurvives ==
    \A p \in Procs :
        (max_size >= 1 /\ MissReturned(p) /\ frame[p].stored) =>
            /\ dir[frame[p].cache_file].exists
            /\ frame[p].lru_file # frame[p].cache_file

====
